---- MODULE Spec2Model ----
(***************************************************************************)
(* BookMarx synchronisation engine.                                        *)
(*                                                                         *)
(* Local agent (browser extension background service):                     *)
(*   BookmarkManager  - change capture (host notification handlers)        *)
(*   StorageManager   - local queue store on chrome.storage.local          *)
(*   SyncManager      - sync orchestrator                                  *)
(* Remote ingest service (express server.ts + DatabaseService on SQLite).  *)
(*                                                                         *)
(* Every `await` of the extension code is a point where another handler    *)
(* of the same event loop can run, so each asynchronous method is split    *)
(* into one action per continuation.  The server handlers use the          *)
(* synchronous better-sqlite3 API and contain no await: a request is       *)
(* handled without interleaving of another request.                        *)
(***************************************************************************)
EXTENDS Integers, Sequences, FiniteSets, TLC

\* ------------------------------------------------------------------ bounds
MaxNotifs == 2      \* host notifications delivered to the capture handlers
MaxCalls  == 2      \* calls of SyncManager.sync()
MaxRemote == 1      \* length of SyncResponse.changes
MaxReqs   == 3      \* requests received by the server
MaxBoots  == 2      \* starts of the background service worker
MaxIdCalls == 2     \* calls of StorageManager.getDeviceId() from messages
MaxApply  == 3      \* length of the changes handed to applyServerChanges

\* ------------------------------------------------------------ local agent
VARIABLES
    storage,         \* contents of chrome.storage.local (StorageData)
    handlers,        \* capture handlers, one per delivered notification
    nextN,           \* serial of the next notification
    syncInProgress,  \* SyncManager.syncInProgress
    calls,           \* invocations of SyncManager.sync()
    nextCall,        \* index of the next sync() invocation
    boot,            \* the background service: initializeServices, onInstalled
    idCalls,         \* invocations of StorageManager.getDeviceId()
    host,            \* the bookmark tree of the browser and its flattening
    defaults         \* StorageManager.defaults, the object held in memory

clientVars ==
    <<storage, handlers, nextN, syncInProgress, calls, nextCall, boot, idCalls,
      host, defaults>>

\* --------------------------------------------------------- ingest service
VARIABLES
    folders,         \* rows of table folders, in insertion order
    bookmarks,       \* rows of table bookmarks, in insertion order
    history,         \* rows of table sync_history
    browsers,        \* rows of table browsers
    import,          \* the handleInitialSync request being processed
    reqs,            \* number of requests received
    resp             \* the last request answered, with its response

serverVars == <<folders, bookmarks, history, browsers, import, reqs, resp>>

\* node.url is set for bookmarks only
HasUrl(id) == id = "b1"

NotifIds == 1..MaxNotifs
CallIds  == 1..MaxCalls

\* StorageManager.defaults completed by setDefaults()
DefaultData ==
    [changes |-> <<>>, lastSync |-> 0, deviceId |-> "D1", browserInstanceId |-> "I1"]

\* chrome.storage.local of a fresh profile: getData() returns null
NoData ==
    [changes |-> <<>>, lastSync |-> 0, deviceId |-> "", browserInstanceId |-> ""]

\* crypto.randomUUID(): the k-th pair of identifiers setDefaults() generates
Uuids ==
    << [deviceId |-> "D1", browserInstanceId |-> "I1"],
       [deviceId |-> "D2", browserInstanceId |-> "I2"],
       [deviceId |-> "D3", browserInstanceId |-> "I3"] >>

\* the service worker before new BackgroundService()
NotStarted == [init |-> "off", install |-> "none", boots |-> 0, uuids |-> 0]

\* the service worker initialized, on a profile installed earlier
Running == [init |-> "ready", install |-> "done", boots |-> 1, uuids |-> 1]

IdCallIds == 1..MaxIdCalls

\* crypto.randomUUID() in getDeviceId: the identifier the k-th call generates
LazyIds == <<"D4", "D5", "D6", "D7">>

NoIdCall == [pc |-> "none", data |-> NoData, result |-> ""]

NoHandler ==
    [pc |-> "none", kind |-> "CREATE", id |-> "b1", same |-> FALSE,
     echo |-> FALSE, data |-> DefaultData]

NoCall ==
    [pc |-> "none", changes |-> <<>>, data |-> DefaultData,
     resp |-> [ok |-> FALSE, action |-> "NONE", changes |-> <<>>],
     idx |-> 1, result |-> "none"]

\* changes the server may return in SyncResponse.changes
RemoteChanges == {[type |-> "UPDATE", id |-> "b1"]}

SeqsUpTo(S, k) == UNION {[1..m -> S] : m \in 0..k}

RemoteBatches == SeqsUpTo(RemoteChanges, MaxRemote)

\* number of entries of sequence s satisfying the serial n
CountSerial(s, n) == Cardinality({i \in DOMAIN s : s[i].n = n})

\* ------------------------------------------------------- change capture
\* data.type written by each handler of BookmarkManager
EntityKind(kind, id) ==
    CASE kind = "CREATE" -> IF HasUrl(id) THEN "bookmark" ELSE "folder"
      [] kind = "DELETE" -> "bookmark"
      [] kind = "UPDATE" -> "bookmark"
      [] kind = "MOVE"   -> IF HasUrl(id) THEN "bookmark" ELSE "folder"

\* the QueuedChange built by queueChange for notification n
QueuedChange(n) ==
    [type   |-> handlers[n].kind,
     etype  |-> EntityKind(handlers[n].kind, handlers[n].id),
     id     |-> handlers[n].id,
     userId |-> "default",
     n      |-> n]

\* the host raises a notification; the registered listener starts running
Notify(kind, id, same, echo) ==
    /\ nextN <= MaxNotifs
    /\ handlers' = [handlers EXCEPT ![nextN] =
           [pc   |-> IF kind = "MOVE" THEN "lookup" ELSE "read",
            kind |-> kind, id |-> id, same |-> same, echo |-> echo,
            data |-> DefaultData]]
    /\ nextN' = nextN + 1

\* host mutations made by the user: a bookmark created, its title changed
HostEvents ==
    {[kind |-> "CREATE", id |-> "b1", same |-> FALSE],
     [kind |-> "UPDATE", id |-> "b1", same |-> FALSE]}

\* the same, and a folder removed, a folder moved to another parent, a
\* bookmark reordered within its parent
CaptureEvents ==
    HostEvents \cup
    {[kind |-> "DELETE", id |-> "f1", same |-> FALSE],
     [kind |-> "MOVE",   id |-> "f1", same |-> FALSE],
     [kind |-> "MOVE",   id |-> "b1", same |-> TRUE]}

\* a mutation made by the user in the browser
LocalNotify(events) ==
    /\ \E e \in events : Notify(e.kind, e.id, e.same, FALSE)
    /\ UNCHANGED <<storage, syncInProgress, calls, nextCall>>
    /\ UNCHANGED <<boot, idCalls, host, defaults, serverVars>>

\* faulty variant: every move whose node is found is queued
MoveLookupAnyParent(n) ==
    /\ handlers[n].pc = "lookup"
    /\ \E found \in BOOLEAN :
          handlers' = [handlers EXCEPT ![n].pc =
              IF ~found THEN "failed" ELSE "read"]
    /\ UNCHANGED <<storage, nextN, syncInProgress, calls, nextCall>>
    /\ UNCHANGED <<boot, idCalls, host, defaults, serverVars>>

\* handleBookmarkMoved: chrome.bookmarks.get(id) settles, then the parent
\* comparison.  The call rejects when the node no longer exists (found =
\* FALSE): the catch block logs the error and nothing is queued.
MoveLookup(n) ==
    /\ handlers[n].pc = "lookup"
    /\ \E found \in BOOLEAN :
          handlers' = [handlers EXCEPT ![n].pc =
              IF ~found THEN "failed"
              ELSE IF handlers[n].same THEN "skipped" ELSE "read"]
    /\ UNCHANGED <<storage, nextN, syncInProgress, calls, nextCall>>
    /\ UNCHANGED <<boot, idCalls, host, defaults, serverVars>>

\* queueChange: const data = await this.getData()
QueueRead(n) ==
    /\ handlers[n].pc = "read"
    /\ handlers' = [handlers EXCEPT ![n].pc = "write", ![n].data = storage]
    /\ UNCHANGED <<storage, nextN, syncInProgress, calls, nextCall>>
    /\ UNCHANGED <<boot, idCalls, host, defaults, serverVars>>

\* queueChange: const data = await this.getData() || this.defaults: when
\* nothing is stored, data is the defaults object itself and not a copy
Aliased(n) == handlers[n].data = NoData

\* the object queueChange pushes to
QueueData(n) == IF Aliased(n) THEN defaults ELSE handlers[n].data

\* queueChange: data.changes.push(queuedChange), on the defaults object when
\* data is that object
Push(n) ==
    defaults' = IF Aliased(n)
                THEN [defaults EXCEPT !.changes = Append(@, QueuedChange(n))]
                ELSE defaults

\* queueChange: data.changes.push(queuedChange); await this.setData(data)
QueueWrite(n) ==
    /\ handlers[n].pc = "write"
    /\ Push(n)
    /\ storage' = [QueueData(n) EXCEPT
                      !.changes = Append(QueueData(n).changes, QueuedChange(n))]
    /\ handlers' = [handlers EXCEPT ![n].pc = "done", ![n].data = DefaultData]
    /\ UNCHANGED <<nextN, syncInProgress, calls, nextCall>>
    /\ UNCHANGED <<boot, idCalls, host, serverVars>>

\* faulty variant: the change of a rejected write is kept in the defaults
\* object, from where a later queueChange on an empty store writes it
QueueWriteFailKeeps(n) ==
    /\ handlers[n].pc = "write"
    /\ defaults' = [defaults EXCEPT !.changes = Append(@, QueuedChange(n))]
    /\ handlers' = [handlers EXCEPT ![n].pc = "failed", ![n].data = DefaultData]
    /\ UNCHANGED <<storage, nextN, syncInProgress, calls, nextCall>>
    /\ UNCHANGED <<boot, idCalls, host, serverVars>>

\* queueChange: chrome.storage.local.set(data) rejects; queueChange throws
\* and the catch block of the capture handler logs the error
QueueWriteFail(n) ==
    /\ handlers[n].pc = "write"
    /\ Push(n)
    /\ handlers' = [handlers EXCEPT ![n].pc = "failed", ![n].data = DefaultData]
    /\ UNCHANGED <<storage, nextN, syncInProgress, calls, nextCall>>
    /\ UNCHANGED <<boot, idCalls, host, serverVars>>

QueueStep == \E n \in NotifIds : QueueRead(n) \/ QueueWrite(n)

CaptureStep == QueueStep \/ \E n \in NotifIds : MoveLookup(n)

\* ---------------------------------------------------- sync orchestrator
InFlight == {c \in CallIds : calls[c].pc \notin {"none", "done"}}

\* Date.now() during invocation c of sync(): a logical time that grows with
\* each invocation
Now(c) == c

\* sync(): return, with the finally block (syncInProgress = false)
Finish(c, res) ==
    /\ calls' = [calls EXCEPT ![c] = [NoCall EXCEPT !.pc = "done", !.result = res]]
    /\ syncInProgress' = FALSE

\* sync(): if (this.syncInProgress) return false
SyncReject(c) ==
    /\ c = nextCall
    /\ syncInProgress
    /\ calls' = [calls EXCEPT ![c].pc = "done", ![c].result = "false"]
    /\ nextCall' = nextCall + 1
    /\ UNCHANGED <<storage, handlers, nextN, syncInProgress>>
    /\ UNCHANGED <<boot, idCalls, host, defaults, serverVars>>

\* faulty variant: sync() without the syncInProgress entry guard
SyncStartUnguarded(c) ==
    /\ c = nextCall
    /\ syncInProgress' = TRUE
    /\ calls' = [calls EXCEPT ![c].pc = "readQueue"]
    /\ nextCall' = nextCall + 1
    /\ UNCHANGED <<storage, handlers, nextN>>
    /\ UNCHANGED <<boot, idCalls, host, defaults, serverVars>>

\* sync(): this.syncInProgress = true, up to the first await
SyncStart(c) ==
    /\ c = nextCall
    /\ ~syncInProgress
    /\ syncInProgress' = TRUE
    /\ calls' = [calls EXCEPT ![c].pc = "readQueue"]
    /\ nextCall' = nextCall + 1
    /\ UNCHANGED <<storage, handlers, nextN>>
    /\ UNCHANGED <<boot, idCalls, host, defaults, serverVars>>

\* faulty variant: an attempt that finds the queue empty returns true at once
SyncReadQueueSkipEmpty(c) ==
    /\ calls[c].pc = "readQueue"
    /\ IF storage.changes = <<>>
         THEN Finish(c, "true")
         ELSE /\ calls' = [calls EXCEPT ![c].pc = "fetch",
                                        ![c].changes = storage.changes]
              /\ UNCHANGED syncInProgress
    /\ UNCHANGED <<storage, handlers, nextN, nextCall>>
    /\ UNCHANGED <<boot, idCalls, host, defaults, serverVars>>

\* const changes = await getQueuedChanges(); sendChangesToServer(changes)
\* reads the device id and hands {changes, deviceId, timestamp} to fetch
SyncReadQueue(c) ==
    /\ calls[c].pc = "readQueue"
    /\ calls' = [calls EXCEPT ![c].pc = "fetch", ![c].changes = storage.changes]
    /\ UNCHANGED <<storage, handlers, nextN, syncInProgress, nextCall>>
    /\ UNCHANGED <<boot, idCalls, host, defaults, serverVars>>

\* what fetch(API_ENDPOINT) resolves to, as sendChangesToServer sees it:
\* ok = FALSE stands for fetch throwing, a non-2xx status or success = false
FailResponse == [ok |-> FALSE, action |-> "NONE", changes |-> <<>>]

BatchResponses ==
    {FailResponse, [ok |-> TRUE, action |-> "NEED_INITIAL_IMPORT", changes |-> <<>>]}
    \cup {[ok |-> TRUE, action |-> "SYNC_COMPLETE", changes |-> rc] : rc \in RemoteBatches}

InitialResponses ==
    {FailResponse, [ok |-> TRUE, action |-> "INITIAL_IMPORT_COMPLETE", changes |-> <<>>]}

\* the pending fetch of invocation c settles
NetRespond(c, r) ==
    /\ \/ calls[c].pc = "fetch" /\ r \in BatchResponses
       \/ calls[c].pc = "fetchInitial" /\ r \in InitialResponses
    /\ calls' = [calls EXCEPT ![c].pc = "resp", ![c].resp = r]
    /\ UNCHANGED <<storage, handlers, nextN, syncInProgress, nextCall>>
    /\ UNCHANGED <<boot, idCalls, host, defaults, serverVars>>

\* faulty variant: the queue is cleared before the response is examined
SyncFetchFailAcks(c) ==
    /\ calls[c].pc = "resp"
    /\ ~calls[c].resp.ok
    /\ storage' = [storage EXCEPT !.changes = <<>>]
    /\ Finish(c, "error")
    /\ UNCHANGED <<handlers, nextN, nextCall>>
    /\ UNCHANGED <<boot, idCalls, host, defaults, serverVars>>

\* faulty variant: syncInProgress reset on the success path only (no finally)
SyncFetchFailNoFinally(c) ==
    /\ calls[c].pc = "resp"
    /\ ~calls[c].resp.ok
    /\ calls' = [calls EXCEPT ![c] = [NoCall EXCEPT !.pc = "done", !.result = "error"]]
    /\ UNCHANGED <<storage, handlers, nextN, syncInProgress, nextCall>>
    /\ UNCHANGED <<boot, idCalls, host, defaults, serverVars>>

\* faulty variant: the request is sent again after a failure
SyncFetchFailRetry(c) ==
    /\ calls[c].pc = "resp"
    /\ ~calls[c].resp.ok
    /\ calls' = [calls EXCEPT ![c].pc = "fetch"]
    /\ UNCHANGED <<storage, handlers, nextN, syncInProgress, nextCall>>
    /\ UNCHANGED <<boot, idCalls, host, defaults, serverVars>>

\* sendChangesToServer returns {success: false} and sync() throws, or
\* sendInitialSync throws; the finally block runs and the caller gets the error
SyncFetchFail(c) ==
    /\ calls[c].pc = "resp"
    /\ ~calls[c].resp.ok
    /\ Finish(c, "error")
    /\ UNCHANGED <<storage, handlers, nextN, nextCall>>
    /\ UNCHANGED <<boot, idCalls, host, defaults, serverVars>>

\* response.success with data.action = 'NEED_INITIAL_IMPORT': sendInitialSync()
SyncNeedInitial(c) ==
    /\ calls[c].pc = "resp"
    /\ calls[c].resp.ok
    /\ calls[c].resp.action = "NEED_INITIAL_IMPORT"
    /\ calls' = [calls EXCEPT ![c].pc = "getTree"]
    /\ UNCHANGED <<storage, handlers, nextN, syncInProgress, nextCall>>
    /\ UNCHANGED <<boot, idCalls, host, defaults, serverVars>>

\* faulty variant: the tree is imported after an accepted batch as well
SyncCompleteThenImport(c) ==
    /\ calls[c].pc = "resp"
    /\ calls[c].resp.ok
    /\ calls[c].resp.action = "SYNC_COMPLETE"
    /\ calls' = [calls EXCEPT ![c].pc = "getTree"]
    /\ UNCHANGED <<storage, handlers, nextN, syncInProgress, nextCall>>
    /\ UNCHANGED <<boot, idCalls, host, defaults, serverVars>>

\* response.success, any other action of the batch endpoint
SyncComplete(c) ==
    /\ calls[c].pc = "resp"
    /\ calls[c].resp.ok
    /\ calls[c].resp.action = "SYNC_COMPLETE"
    /\ IF Len(calls[c].changes) > 0
         THEN /\ calls' = [calls EXCEPT ![c].pc = "clearRead"]
              /\ UNCHANGED syncInProgress
         ELSE IF Len(calls[c].resp.changes) > 0
         THEN /\ calls' = [calls EXCEPT ![c].pc = "apply"]
              /\ UNCHANGED syncInProgress
         ELSE Finish(c, "true")
    /\ UNCHANGED <<storage, handlers, nextN, nextCall>>
    /\ UNCHANGED <<boot, idCalls, host, defaults, serverVars>>

\* clearQueuedChanges: const data = await this.getData()
ClearRead(c) ==
    /\ calls[c].pc = "clearRead"
    /\ calls' = [calls EXCEPT ![c].pc = "clearWrite", ![c].data = storage]
    /\ UNCHANGED <<storage, handlers, nextN, syncInProgress, nextCall>>
    /\ UNCHANGED <<boot, idCalls, host, defaults, serverVars>>

\* clearQueuedChanges: data.changes = []; await chrome.storage.local.set(data)
ClearWrite(c) ==
    /\ calls[c].pc = "clearWrite"
    /\ storage' = [calls[c].data EXCEPT !.changes = <<>>]
    /\ calls' = [calls EXCEPT ![c].pc = "lastRead", ![c].data = DefaultData]
    /\ UNCHANGED <<handlers, nextN, syncInProgress, nextCall>>
    /\ UNCHANGED <<boot, idCalls, host, defaults, serverVars>>

\* updateLastSync: const data = await this.getData()
LastRead(c) ==
    /\ calls[c].pc = "lastRead"
    /\ calls' = [calls EXCEPT ![c].pc = "lastWrite", ![c].data = storage]
    /\ UNCHANGED <<storage, handlers, nextN, syncInProgress, nextCall>>
    /\ UNCHANGED <<boot, idCalls, host, defaults, serverVars>>

\* updateLastSync: data.lastSync = Date.now(); await set(data); then either
\* applyServerChanges(response.changes) or return true
LastWrite(c) ==
    /\ calls[c].pc = "lastWrite"
    /\ storage' = [calls[c].data EXCEPT !.lastSync = Now(c)]
    /\ IF Len(calls[c].resp.changes) > 0
         THEN /\ calls' = [calls EXCEPT ![c].pc = "apply", ![c].data = DefaultData]
              /\ UNCHANGED syncInProgress
         ELSE Finish(c, "true")
    /\ UNCHANGED <<handlers, nextN, nextCall>>
    /\ UNCHANGED <<boot, idCalls, host, defaults, serverVars>>

\* the capture notification the host raises for an apply-back call
NotifKind(type) == type

\* faulty variant: a rejected host call ends the loop
ApplyOneAbort(c, ok) ==
    /\ calls[c].pc = "apply"
    /\ LET ch == calls[c].resp.changes[calls[c].idx]
           last == calls[c].idx = Len(calls[c].resp.changes)
       IN /\ IF ok
               THEN Notify(NotifKind(ch.type), ch.id, FALSE, TRUE)
               ELSE UNCHANGED <<handlers, nextN>>
          /\ IF last \/ ~ok
               THEN Finish(c, "true")
               ELSE /\ calls' = [calls EXCEPT ![c].idx = calls[c].idx + 1]
                    /\ UNCHANGED syncInProgress
    /\ UNCHANGED <<storage, nextCall>>
    /\ UNCHANGED <<boot, idCalls, host, defaults, serverVars>>

\* applyServerChanges: one awaited chrome.bookmarks call; ok = FALSE is the
\* call rejecting (caught, logged, loop continues)
ApplyOne(c, ok) ==
    /\ calls[c].pc = "apply"
    /\ LET ch == calls[c].resp.changes[calls[c].idx]
           last == calls[c].idx = Len(calls[c].resp.changes)
       IN /\ IF ok
               THEN Notify(NotifKind(ch.type), ch.id, FALSE, TRUE)
               ELSE UNCHANGED <<handlers, nextN>>
          /\ IF last
               THEN Finish(c, "true")
               ELSE /\ calls' = [calls EXCEPT ![c].idx = calls[c].idx + 1]
                    /\ UNCHANGED syncInProgress
    /\ UNCHANGED <<storage, nextCall>>
    /\ UNCHANGED <<boot, idCalls, host, defaults, serverVars>>

\* sendInitialSync: chrome.bookmarks.getTree() resolved, the tree is flattened
\* and posted to API_ENDPOINT/initial
GetTree(c) ==
    /\ calls[c].pc = "getTree"
    /\ calls' = [calls EXCEPT ![c].pc = "fetchInitial"]
    /\ UNCHANGED <<storage, handlers, nextN, syncInProgress, nextCall>>
    /\ UNCHANGED <<boot, idCalls, host, defaults, serverVars>>

\* sendInitialSync: response.ok and result.success: updateLastSync()
InitialOk(c) ==
    /\ calls[c].pc = "resp"
    /\ calls[c].resp.ok
    /\ calls[c].resp.action = "INITIAL_IMPORT_COMPLETE"
    /\ calls' = [calls EXCEPT ![c].pc = "lastRead"]
    /\ UNCHANGED <<storage, handlers, nextN, syncInProgress, nextCall>>
    /\ UNCHANGED <<boot, idCalls, host, defaults, serverVars>>

\* StorageManager.setDefaults: two fresh identifiers, and the whole object
\* { ...this.defaults, deviceId, browserInstanceId } is written
setDefaults ==
    storage' = [defaults EXCEPT
                   !.deviceId = Uuids[boot.uuids + 1].deviceId,
                   !.browserInstanceId = Uuids[boot.uuids + 1].browserInstanceId]

\* new BackgroundService(): initializeServices() calls
\* storageManager.initialize(), which awaits getData(); setupEventListeners()
\* registers onInstalled, onStartup and onMessage.  After the first start
\* this is a restart of the service worker: handleStartup only reads the
\* settings (autoSync is false).
Construct ==
    /\ boot.init \in {"off", "ready", "failed"}
    /\ boot.boots < MaxBoots
    /\ \A n \in NotifIds : handlers[n].pc \in {"none", "done", "skipped", "failed"}
    /\ \A c \in CallIds : calls[c].pc \in {"none", "done"}
    /\ \A k \in IdCallIds : idCalls[k].pc \in {"none", "done"}
    /\ boot' = [boot EXCEPT !.init = "getData", !.boots = @ + 1]
    /\ UNCHANGED <<storage, handlers, nextN, syncInProgress, calls, nextCall>>
    /\ UNCHANGED <<idCalls, host, defaults, serverVars>>

\* StorageManager.initialize: getData() resolved;
\* if (!data || !data.browserInstanceId) await this.setDefaults()
InitRead ==
    /\ boot.init = "getData"
    /\ IF storage.browserInstanceId = ""
         THEN /\ setDefaults
              /\ boot' = [boot EXCEPT !.init = "listen", !.uuids = @ + 1]
         ELSE /\ boot' = [boot EXCEPT !.init = "listen"]
              /\ UNCHANGED storage
    /\ UNCHANGED <<handlers, nextN, syncInProgress, calls, nextCall>>
    /\ UNCHANGED <<idCalls, host, defaults, serverVars>>

\* StorageManager.initialize: the write of setDefaults() rejects; the catch
\* block of initializeServices logs the error, no listener is registered and
\* the identifiers generated are lost
InitReadFail ==
    /\ boot.init = "getData"
    /\ storage.browserInstanceId = ""
    /\ boot' = [boot EXCEPT !.init = "failed"]
    /\ UNCHANGED <<storage, handlers, nextN, syncInProgress, calls, nextCall>>
    /\ UNCHANGED <<idCalls, host, defaults, serverVars>>

\* initializeServices: await this.bookmarkManager.initialize() registers the
\* four chrome.bookmarks listeners; syncManager.initialize(); isInitialized
InitListen ==
    /\ boot.init = "listen"
    /\ boot' = [boot EXCEPT !.init = "ready"]
    /\ UNCHANGED <<storage, handlers, nextN, syncInProgress, calls, nextCall>>
    /\ UNCHANGED <<idCalls, host, defaults, serverVars>>

\* chrome.runtime.onInstalled, reason 'install', delivered once to the first
\* service worker: handleInstall -> handleFirstInstall -> setDefaults()
InstallEvent ==
    /\ boot.install = "none"
    /\ boot.boots = 1
    /\ setDefaults
    /\ boot' = [boot EXCEPT !.install = "done", !.uuids = @ + 1]
    /\ UNCHANGED <<handlers, nextN, syncInProgress, calls, nextCall>>
    /\ UNCHANGED <<idCalls, host, defaults, serverVars>>

\* a bookmark notification reaches the listeners once they are registered
ListenerNotify ==
    /\ boot.init = "ready"
    /\ LocalNotify(HostEvents)

LifecycleStep == Construct \/ InitRead \/ InitListen \/ InstallEvent

\* onMessage 'getSyncStatus' (registered by the constructor):
\* getDeviceId: const data = await this.getData()
IdRead(k) ==
    /\ boot.init # "off"
    /\ idCalls[k].pc = "none"
    /\ \A j \in IdCallIds : j < k => idCalls[j].pc # "none"
    /\ idCalls' = [idCalls EXCEPT ![k].pc = "got", ![k].data = storage]
    /\ UNCHANGED <<storage, handlers, nextN, syncInProgress, calls, nextCall, boot>>
    /\ UNCHANGED <<host, defaults, serverVars>>

\* getDeviceId: if (data?.deviceId) return data.deviceId; otherwise
\* crypto.randomUUID(), set({ ...data || this.defaults, deviceId }), return
IdReturn(k) ==
    /\ idCalls[k].pc = "got"
    /\ IF idCalls[k].data.deviceId # ""
         THEN /\ idCalls' = [idCalls EXCEPT ![k] =
                     [NoIdCall EXCEPT !.pc = "done",
                                      !.result = idCalls[k].data.deviceId]]
              /\ UNCHANGED storage
         ELSE /\ idCalls' = [idCalls EXCEPT ![k] =
                     [NoIdCall EXCEPT !.pc = "done", !.result = LazyIds[k]]]
              /\ storage' = [(IF idCalls[k].data = NoData THEN defaults
                               ELSE idCalls[k].data)
                                 EXCEPT !.deviceId = LazyIds[k]]
    /\ UNCHANGED <<handlers, nextN, syncInProgress, calls, nextCall, boot>>
    /\ UNCHANGED <<host, defaults, serverVars>>

IdStep == \E k \in IdCallIds : IdRead(k) \/ IdReturn(k)

SyncStep ==
    \E c \in CallIds :
        \/ SyncReject(c)
        \/ SyncStart(c)
        \/ SyncReadQueue(c)
        \/ \E r \in BatchResponses \cup InitialResponses : NetRespond(c, r)
        \/ SyncFetchFail(c)
        \/ SyncNeedInitial(c)
        \/ SyncComplete(c)
        \/ ClearRead(c)
        \/ ClearWrite(c)
        \/ LastRead(c)
        \/ LastWrite(c)
        \/ \E ok \in BOOLEAN : ApplyOne(c, ok)
        \/ GetTree(c)
        \/ InitialOk(c)

\* ------------------------------------------------------------- host tree
\* BookmarkTreeNode.index of a node that has none (the root)
NoIndex == -1

\* a chrome.bookmarks.BookmarkTreeNode: url is set for bookmarks only; full
\* says that title and dateAdded are set
Bm(id, parentId, index) ==
    [id |-> id, parentId |-> parentId, index |-> index, url |-> TRUE,
     full |-> TRUE, children |-> <<>>]

Fd(id, parentId, index, children) ==
    [id |-> id, parentId |-> parentId, index |-> index, url |-> FALSE,
     full |-> TRUE, children |-> children]

\* tree[0] of chrome.bookmarks.getTree(): the root, id '0'
RootOf(children) ==
    [id |-> "0", parentId |-> "", index |-> NoIndex, url |-> FALSE,
     full |-> TRUE, children |-> children]

\* folder f1 under the root holds folder f2 (with bookmark b1) and bookmark b2
HostTree ==
    RootOf(<<Fd("f1", "0", 0,
                <<Fd("f2", "f1", 0, <<Bm("b1", "f2", 0)>>),
                  Bm("b2", "f1", 1)>>)>>)

Trees ==
    { HostTree,
      RootOf(<<>>),
      RootOf(<<Fd("f1", "0", 0, <<>>), Fd("f2", "0", 1, <<>>)>>),
      RootOf(<<Fd("f1", "0", 0, <<>>),
               Fd("f2", "0", 1, <<Bm("b1", "f2", 0), Bm("b2", "f2", 1)>>)>>),
      RootOf(<<Fd("f1", "0", 0,
                  <<Bm("b2", "f1", 0),
                    Fd("f2", "f1", 1, <<Bm("b1", "f2", 0)>>)>>)>>) }

NoFlat == [bookmarks |-> <<>>, folders |-> <<>>]

\* faulty variant: the position is not taken from the node
ItemOfFirstPosition(node) ==
    [userId |-> "default", browserId |-> node.id, parentId |-> node.parentId,
     position |-> 0, full |-> node.full]

\* processBookmarkTree: the object pushed for a node;
\* position: node.index || 0
ItemOf(node) ==
    [userId |-> "default", browserId |-> node.id, parentId |-> node.parentId,
     position |-> IF node.index = NoIndex THEN 0 ELSE node.index,
     full |-> node.full]

RECURSIVE processNode(_, _), forEachChild(_, _, _)

\* processBookmarkTree: const processNode = (node) => { ... }
processNode(node, acc) ==
    LET pushed == IF node.id # "0"
                  THEN IF node.url
                       THEN [acc EXCEPT !.bookmarks = Append(@, ItemOf(node))]
                       ELSE [acc EXCEPT !.folders = Append(@, ItemOf(node))]
                  ELSE acc
    IN  forEachChild(node.children, 1, pushed)

\* node.children.forEach(processNode), from child k on
forEachChild(children, k, acc) ==
    IF k > Len(children) THEN acc
    ELSE forEachChild(children, k + 1, processNode(children[k], acc))

processBookmarkTree(node) == processNode(node, NoFlat)

\* sendInitialSync: const tree = await chrome.bookmarks.getTree();
\* const { bookmarks, folders } = this.processBookmarkTree(tree[0])
FlattenTree ==
    /\ ~host.done
    /\ host' = [host EXCEPT !.out = processBookmarkTree(host.tree), !.done = TRUE]
    /\ UNCHANGED <<storage, handlers, nextN, syncInProgress, calls, nextCall,
                   boot, idCalls, defaults>>
    /\ UNCHANGED serverVars

\* ============================================================ ingest service
Devices == {"D1", "D2"}

\* items of an InitialSyncRequest as processBookmarkTree builds them; `full`
\* says that the NOT NULL columns (title, position, dateAdded, url) are given.
\* f2 is a child of f1, b1 a child of f2.
F1 == [userId |-> "default", browserId |-> "f1", parentId |-> "0",
       position |-> 0, full |-> TRUE]
F2 == [userId |-> "default", browserId |-> "f2", parentId |-> "f1",
       position |-> 0, full |-> TRUE]
FX == [userId |-> "default", browserId |-> "fx", parentId |-> "0",
       position |-> 1, full |-> FALSE]
B1 == [userId |-> "default", browserId |-> "b1", parentId |-> "f2",
       position |-> 0, full |-> TRUE]
B2 == [userId |-> "default", browserId |-> "b2", parentId |-> "f1",
       position |-> 1, full |-> TRUE]
BX == [userId |-> "default", browserId |-> "bx", parentId |-> "f1",
       position |-> 2, full |-> FALSE]

FolderLists == {<<>>, <<F1, F2>>, <<F2, F1>>, <<F1, FX>>}
BookmarkLists == {<<>>, <<B1, B2>>, <<B1, BX>>}

\* changes of a SyncRequest as queueChange builds them: data.userId is
\* 'default'; only a CREATE carries title, url, parentId, position, dateAdded;
\* inst is metadata.deviceInfo.browserInstanceId, "null" when the metadata
\* has none
Chg(type, etype, id, full) ==
    [type |-> type, etype |-> etype, browserId |-> id, userId |-> "default",
     parentId |-> "f1", full |-> full, inst |-> "null"]

\* a change that names the device as owner and carries every column the
\* statements bind (title, url, parentId, position, dateAdded)
Own(type, etype, id, dev) ==
    [type |-> type, etype |-> etype, browserId |-> id, userId |-> dev,
     parentId |-> "f1", full |-> TRUE, inst |-> "null"]

\* the changes as the queueChange of an initialised installation stamps
\* them: metadata.deviceInfo.browserInstanceId is the stored identifier
Stamp(changes, inst) == [i \in DOMAIN changes |-> [changes[i] EXCEPT !.inst = inst]]

Batches ==
    { <<>>,
      <<Chg("CREATE", "bookmark", "b3", TRUE)>>,
      <<Chg("CREATE", "folder", "f3", TRUE), Chg("MOVE", "bookmark", "b3", FALSE)>>,
      <<Chg("CREATE", "bookmark", "b3", TRUE), Chg("UPDATE", "bookmark", "b3", FALSE),
        Chg("CREATE", "folder", "f3", TRUE)>>,
      <<Chg("DELETE", "bookmark", "b3", FALSE)>>,
      <<Chg("DELETE", "bookmark", "b1", FALSE)>>,
      <<Chg("UPDATE", "folder", "f3", TRUE)>>,
      <<Own("CREATE", "bookmark", "b1", "D1")>>,
      <<Own("UPDATE", "bookmark", "b1", "D1"), Own("DELETE", "bookmark", "b1", "D1")>>,
      <<Own("DELETE", "bookmark", "b1", "D1")>>,
      Stamp(<<Chg("CREATE", "bookmark", "b3", TRUE),
              Chg("UPDATE", "bookmark", "b3", FALSE),
              Chg("CREATE", "folder", "f3", TRUE)>>, "I1") }

NoImport == [pc |-> "idle", deviceId |-> "D1", folders |-> <<>>, bookmarks |-> <<>>,
             folderResults |-> 0, bookmarkResults |-> 0, f0 |-> 0, b0 |-> 0]

NoResp == [kind |-> "none", deviceId |-> "D1", changes |-> <<>>, code |-> 0,
           action |-> "NONE", needsInitialSync |-> FALSE, results |-> <<>>,
           imported |-> <<0, 0>>]

\* DatabaseService.getBookmarkCount
getBookmarkCount(userId) ==
    Cardinality({i \in DOMAIN bookmarks : bookmarks[i].userId = userId})

\* the row an INSERT of createFolder / createBookmark stores
NewRow(d) ==
    [browserId |-> d.browserId, userId |-> d.userId, parentId |-> d.parentId,
     status |-> "active", syncVersion |-> 1]

\* DatabaseService.createFolder: plain INSERT; throws on a NOT NULL column
createFolder(tbl, folder) ==
    IF folder.full THEN [ok |-> TRUE, tbl |-> Append(tbl, NewRow(folder))]
    ELSE [ok |-> FALSE, tbl |-> tbl]

\* DatabaseService.createBookmark: plain INSERT; throws on a NOT NULL column
createBookmark(tbl, bookmark) ==
    IF bookmark.full THEN [ok |-> TRUE, tbl |-> Append(tbl, NewRow(bookmark))]
    ELSE [ok |-> FALSE, tbl |-> tbl]

\* faulty variant: the version is written from a value read earlier
UpdateRowsStale(tbl, d, status) ==
    LET hit == {i \in DOMAIN tbl : tbl[i].browserId = d.browserId
                                   /\ tbl[i].userId = d.userId}
    IN  IF hit = {} THEN [ok |-> TRUE, tbl |-> tbl]
        ELSE IF ~d.full THEN [ok |-> FALSE, tbl |-> tbl]
        ELSE [ok |-> TRUE,
              tbl |-> [i \in DOMAIN tbl |->
                         IF i \in hit
                         THEN [tbl[i] EXCEPT !.parentId = d.parentId,
                                             !.status = status,
                                             !.syncVersion = 2]
                         ELSE tbl[i]]]

\* UPDATE ... SET title = ?, parentId = ?, position = ?, status = ?,
\* syncVersion = syncVersion + 1 WHERE browserId = ? AND userId = ?
\* No row matching: nothing changes.  A matching row and title undefined:
\* the statement aborts on the NOT NULL constraint.
UpdateRows(tbl, d, status) ==
    LET hit == {i \in DOMAIN tbl : tbl[i].browserId = d.browserId
                                   /\ tbl[i].userId = d.userId}
    IN  IF hit = {} THEN [ok |-> TRUE, tbl |-> tbl]
        ELSE IF ~d.full THEN [ok |-> FALSE, tbl |-> tbl]
        ELSE [ok |-> TRUE,
              tbl |-> [i \in DOMAIN tbl |->
                         IF i \in hit
                         THEN [tbl[i] EXCEPT !.parentId = d.parentId,
                                             !.status = status,
                                             !.syncVersion = @ + 1]
                         ELSE tbl[i]]]

\* DatabaseService.updateBookmark; bookmark.status is bound as given
updateBookmark(tbl, bookmark, status) == UpdateRows(tbl, bookmark, status)

\* DatabaseService.updateFolder
updateFolder(tbl, folder, status) == UpdateRows(tbl, folder, status)

\* one iteration of the loop of handleSync: the switch on change.type inside
\* the per-change try/catch.  MOVE has no case: nothing is done and nothing
\* is pushed to results.
ProcessChange(db, change) ==
    LET onBookmarks(r) == [folders |-> db.folders, bookmarks |-> r.tbl,
            results |-> Append(db.results, IF r.ok THEN "ok" ELSE "error")]
        onFolders(r) == [folders |-> r.tbl, bookmarks |-> db.bookmarks,
            results |-> Append(db.results, IF r.ok THEN "ok" ELSE "error")]
    IN  CASE change.type = "CREATE" ->
                 IF change.etype = "bookmark"
                 THEN onBookmarks(createBookmark(db.bookmarks, change))
                 ELSE onFolders(createFolder(db.folders, change))
          [] change.type = "UPDATE" ->
                 IF change.etype = "bookmark"
                 THEN onBookmarks(updateBookmark(db.bookmarks, change, "null"))
                 ELSE onFolders(updateFolder(db.folders, change, "null"))
          [] change.type = "DELETE" ->
                 IF change.etype = "bookmark"
                 THEN onBookmarks(updateBookmark(db.bookmarks, change, "deleted"))
                 ELSE onFolders(updateFolder(db.folders, change, "deleted"))
          [] OTHER -> db

\* faulty variant: the first change that throws ends the loop
RECURSIVE ProcessChangesAbort(_, _)
ProcessChangesAbort(db, changes) ==
    IF changes = <<>> THEN db
    ELSE LET d == ProcessChange(db, Head(changes))
         IN  IF Len(d.results) > Len(db.results)
                /\ d.results[Len(d.results)] = "error"
             THEN d
             ELSE ProcessChangesAbort(d, Tail(changes))

RECURSIVE ProcessChanges(_, _)
ProcessChanges(db, changes) ==
    IF changes = <<>> THEN db
    ELSE ProcessChanges(ProcessChange(db, Head(changes)), Tail(changes))

\* GET /api/v1/sync/status
Status(dev) ==
    /\ import.pc = "idle"
    /\ reqs < MaxReqs
    /\ reqs' = reqs + 1
    /\ resp' = [NoResp EXCEPT !.kind = "status", !.deviceId = dev, !.code = 200,
                              !.needsInitialSync = (getBookmarkCount(dev) = 0)]
    /\ UNCHANGED <<folders, bookmarks, history, browsers, import>>
    /\ UNCHANGED clientVars

\* faulty variant: the entry counts the results, as changesApplied does
SyncEntryPerResult(dev, changes, results) ==
    [userId |-> dev, type |-> "SYNC",
     changesCount |-> Len(results), status |-> "SUCCESS"]

\* the createSyncHistory call of handleSync: the per-change results do not
\* enter the row
SyncEntry(dev, changes, results) ==
    [userId |-> dev, type |-> "SYNC",
     changesCount |-> Len(changes), status |-> "SUCCESS"]

\* faulty variant: the batch is recorded before the test for the first sync
handleSyncRecordsFirst(dev, changes) ==
    /\ history' = Append(history, SyncEntry(dev, changes, <<>>))
    /\ IF getBookmarkCount(dev) = 0
       THEN /\ resp' = [NoResp EXCEPT !.kind = "batch", !.deviceId = dev,
                                      !.changes = changes, !.code = 200,
                                      !.action = "NEED_INITIAL_IMPORT"]
            /\ UNCHANGED <<folders, bookmarks>>
       ELSE LET db == ProcessChanges([folders |-> folders, bookmarks |-> bookmarks,
                                      results |-> <<>>], changes)
            IN  /\ folders' = db.folders
                /\ bookmarks' = db.bookmarks
                /\ resp' = [NoResp EXCEPT !.kind = "batch", !.deviceId = dev,
                                          !.changes = changes, !.code = 200,
                                          !.action = "SYNC_COMPLETE",
                                          !.results = db.results]
    /\ UNCHANGED <<browsers, import>>

\* the browserInstanceId createSyncHistory binds in handleSync: that of
\* changes[0]?.metadata, NULL for an empty batch
HistoryInstance(changes) == IF changes = <<>> THEN "null" ELSE changes[1].inst

\* FOREIGN KEY (browserInstanceId) REFERENCES browsers(browserInstanceId)
\* with foreign_keys = ON: a NULL child key is not checked, any other must
\* equal the key of a row of browsers
Registered(inst) ==
    inst = "null" \/ \E i \in DOMAIN browsers : browsers[i].browserInstanceId = inst

\* handleSync of server.ts on the body {changes, deviceId}.  createSyncHistory
\* runs after the loop, outside the per-change try: when its INSERT violates
\* the foreign key the outer catch answers 500, and the rows the loop wrote
\* stay (no transaction)
handleSync(dev, changes) ==
    /\ IF getBookmarkCount(dev) = 0
       THEN /\ resp' = [NoResp EXCEPT !.kind = "batch", !.deviceId = dev,
                                      !.changes = changes, !.code = 200,
                                      !.action = "NEED_INITIAL_IMPORT"]
            /\ UNCHANGED <<folders, bookmarks, history>>
       ELSE LET db == ProcessChanges([folders |-> folders, bookmarks |-> bookmarks,
                                      results |-> <<>>], changes)
            IN  /\ folders' = db.folders
                /\ bookmarks' = db.bookmarks
                /\ IF Registered(HistoryInstance(changes))
                   THEN /\ history' = Append(history,
                                             SyncEntry(dev, changes, db.results))
                        /\ resp' = [NoResp EXCEPT !.kind = "batch", !.deviceId = dev,
                                                  !.changes = changes, !.code = 200,
                                                  !.action = "SYNC_COMPLETE",
                                                  !.results = db.results]
                   ELSE /\ UNCHANGED history
                        /\ resp' = [NoResp EXCEPT !.kind = "batch", !.deviceId = dev,
                                                  !.changes = changes, !.code = 500]
    /\ UNCHANGED <<browsers, import>>

\* POST /api/v1/sync
HandleSync(dev, changes) ==
    /\ import.pc = "idle"
    /\ reqs < MaxReqs
    /\ reqs' = reqs + 1
    /\ handleSync(dev, changes)
    /\ UNCHANGED clientVars

\* faulty variant: the loop over bookmarks placed before the loop over folders
ImportPhaseBookmarksFirst(nf, nb, fr, br) ==
    IF br < nb THEN "bookmarks" ELSE IF fr < nf THEN "folders" ELSE "history"

\* which loop of handleInitialSync runs next: the loop over folders is
\* entered first and left only when it is exhausted
ImportPhase(nf, nb, fr, br) ==
    IF fr < nf THEN "folders" ELSE IF br < nb THEN "bookmarks" ELSE "history"

Phase == ImportPhase(Len(import.folders), Len(import.bookmarks),
                     import.folderResults, import.bookmarkResults)

\* handleInitialSync: the body is read and the browser registered
handleInitialSync(dev, fs, bs, inst) ==
    /\ browsers' = IF inst # "null" /\ \E i \in DOMAIN browsers :
                                           browsers[i].browserInstanceId = inst
                   THEN browsers
                   ELSE Append(browsers, [browserInstanceId |-> inst, userId |-> dev])
    /\ import' = [pc |-> "run", deviceId |-> dev, folders |-> fs, bookmarks |-> bs,
                  folderResults |-> 0, bookmarkResults |-> 0,
                  f0 |-> Len(folders), b0 |-> Len(bookmarks)]
    /\ resp' = NoResp
    /\ UNCHANGED <<folders, bookmarks, history>>

\* POST /api/v1/sync/initial
ImportBegin(dev, fs, bs, inst) ==
    /\ import.pc = "idle"
    /\ reqs < MaxReqs
    /\ reqs' = reqs + 1
    /\ handleInitialSync(dev, fs, bs, inst)
    /\ UNCHANGED clientVars

\* the inner catch rethrows and the outer one answers 500; rows already
\* inserted stay, no history entry is written
ImportThrow ==
    /\ import' = NoImport
    /\ resp' = [NoResp EXCEPT !.kind = "initial", !.deviceId = import.deviceId,
                              !.code = 500]

\* one iteration of `for (const folder of folders)`
ImportFolder ==
    /\ import.pc = "run"
    /\ Phase = "folders"
    /\ LET r == createFolder(folders,
                   [import.folders[import.folderResults + 1]
                       EXCEPT !.userId = import.deviceId])
       IN  /\ folders' = r.tbl
           /\ IF r.ok
              THEN /\ import' = [import EXCEPT !.folderResults = @ + 1]
                   /\ UNCHANGED resp
              ELSE ImportThrow
    /\ UNCHANGED <<bookmarks, history, browsers, reqs>>
    /\ UNCHANGED clientVars

\* one iteration of `for (const bookmark of bookmarks)`
ImportBookmark ==
    /\ import.pc = "run"
    /\ Phase = "bookmarks"
    /\ LET r == createBookmark(bookmarks,
                   [import.bookmarks[import.bookmarkResults + 1]
                       EXCEPT !.userId = import.deviceId])
       IN  /\ bookmarks' = r.tbl
           /\ IF r.ok
              THEN /\ import' = [import EXCEPT !.bookmarkResults = @ + 1]
                   /\ UNCHANGED resp
              ELSE ImportThrow
    /\ UNCHANGED <<folders, history, browsers, reqs>>
    /\ UNCHANGED clientVars

\* faulty variant: the response is sent without the history entry
ImportFinishNoHistory ==
    /\ import.pc = "run"
    /\ Phase = "history"
    /\ resp' = [NoResp EXCEPT !.kind = "initial", !.deviceId = import.deviceId,
                              !.code = 200, !.action = "INITIAL_IMPORT_COMPLETE",
                              !.imported = <<import.folderResults,
                                             import.bookmarkResults>>]
    /\ import' = NoImport
    /\ UNCHANGED <<folders, bookmarks, history, browsers, reqs>>
    /\ UNCHANGED clientVars

\* createSyncHistory and the INITIAL_IMPORT_COMPLETE response
ImportFinish ==
    /\ import.pc = "run"
    /\ Phase = "history"
    /\ history' = Append(history,
           [userId |-> import.deviceId, type |-> "INITIAL_IMPORT",
            changesCount |-> Len(import.bookmarks) + Len(import.folders),
            status |-> "SUCCESS"])
    /\ resp' = [NoResp EXCEPT !.kind = "initial", !.deviceId = import.deviceId,
                              !.code = 200, !.action = "INITIAL_IMPORT_COMPLETE",
                              !.imported = <<import.folderResults,
                                             import.bookmarkResults>>]
    /\ import' = NoImport
    /\ UNCHANGED <<folders, bookmarks, browsers, reqs>>
    /\ UNCHANGED clientVars

InstanceIds == {"null"}

ServerInit ==
    /\ folders = <<>>
    /\ bookmarks = <<>>
    /\ history = <<>>
    /\ browsers = <<>>
    /\ import = NoImport
    /\ reqs = 0
    /\ resp = NoResp

ServerNext ==
    \/ \E dev \in Devices : Status(dev)
    \/ \E dev \in Devices, changes \in Batches : HandleSync(dev, changes)
    \/ \E dev \in Devices, fs \in FolderLists, bs \in BookmarkLists,
          inst \in InstanceIds : ImportBegin(dev, fs, bs, inst)
    \/ ImportFolder
    \/ ImportBookmark
    \/ ImportFinish

\* ------------------------------------------------------- specification
ClientInit ==
    /\ storage = DefaultData
    /\ handlers = [n \in NotifIds |-> NoHandler]
    /\ nextN = 1
    /\ syncInProgress = FALSE
    /\ calls = [c \in CallIds |-> NoCall]
    /\ nextCall = 1
    /\ boot = Running
    /\ idCalls = [k \in IdCallIds |-> NoIdCall]
    /\ host = [tree |-> HostTree, out |-> NoFlat, done |-> FALSE]
    /\ defaults = NoData

Init == ClientInit /\ ServerInit

vars == <<clientVars, serverVars>>

\* the local agent: captures and sync attempts interleaved
Next == LocalNotify(HostEvents) \/ QueueStep \/ SyncStep

Spec == Init /\ [][Next]_vars

\* a fresh profile: nothing stored, the service worker not started
LifecycleInit ==
    /\ storage = NoData
    /\ handlers = [n \in NotifIds |-> NoHandler]
    /\ nextN = 1
    /\ syncInProgress = FALSE
    /\ calls = [c \in CallIds |-> NoCall]
    /\ nextCall = 1
    /\ boot = NotStarted
    /\ idCalls = [k \in IdCallIds |-> NoIdCall]
    /\ host = [tree |-> HostTree, out |-> NoFlat, done |-> FALSE]
    /\ defaults = NoData
    /\ ServerInit

\* installation, starts of the service worker and change capture
LifecycleNext == LifecycleStep \/ ListenerNotify \/ QueueStep \/ IdStep

SpecLifecycle == LifecycleInit /\ [][LifecycleNext]_vars

\* a write to chrome.storage.local is rejected
StorageFail == InitReadFail \/ \E n \in NotifIds : QueueWriteFail(n)

\* installation, starts of the service worker and change capture on a
\* store whose writes can be rejected
QueueNext == LifecycleStep \/ ListenerNotify \/ QueueStep \/ StorageFail

SpecQueue == LifecycleInit /\ [][QueueNext]_vars

\* any of the host trees; the queue as change capture fills it
TreeInit ==
    /\ storage = DefaultData
    /\ handlers = [n \in NotifIds |-> NoHandler]
    /\ nextN = 1
    /\ syncInProgress = FALSE
    /\ calls = [c \in CallIds |-> NoCall]
    /\ nextCall = 1
    /\ boot = Running
    /\ idCalls = [k \in IdCallIds |-> NoIdCall]
    /\ \E t \in Trees : host = [tree |-> t, out |-> NoFlat, done |-> FALSE]
    /\ defaults = NoData
    /\ ServerInit

\* the flattening of the tree for the initial import, beside change capture
TreeNext == FlattenTree \/ LocalNotify(HostEvents) \/ QueueStep

SpecTree == TreeInit /\ [][TreeNext]_vars

\* the changes of a response, of two kinds so that their order shows
ApplyBatches ==
    SeqsUpTo({[type |-> "UPDATE", id |-> "b1"], [type |-> "DELETE", id |-> "b1"]},
             MaxApply) \ {<<>>}

\* sync() has sent an empty queue and received SYNC_COMPLETE with changes:
\* applyServerChanges(response.changes) is about to run
ApplyInit ==
    /\ storage = DefaultData
    /\ handlers = [n \in NotifIds |-> NoHandler]
    /\ nextN = 1
    /\ syncInProgress = TRUE
    /\ \E b \in ApplyBatches :
          calls = [c \in CallIds |->
                     IF c = 1
                     THEN [NoCall EXCEPT !.pc = "apply",
                              !.resp = [ok |-> TRUE, action |-> "SYNC_COMPLETE",
                                        changes |-> b]]
                     ELSE NoCall]
    /\ nextCall = 2
    /\ boot = Running
    /\ idCalls = [k \in IdCallIds |-> NoIdCall]
    /\ host = [tree |-> HostTree, out |-> NoFlat, done |-> FALSE]
    /\ defaults = NoData
    /\ ServerInit

\* the apply-back loop and the capture handlers its host calls wake
ApplyNext == (\E c \in CallIds, ok \in BOOLEAN : ApplyOne(c, ok)) \/ QueueStep

SpecApply == ApplyInit /\ [][ApplyNext]_vars

\* change capture alone, over every kind of host notification
CaptureNext == LocalNotify(CaptureEvents) \/ CaptureStep

SpecCapture == Init /\ [][CaptureNext]_vars

\* the ingest service alone, over requests of every endpoint
SpecServer == Init /\ [][ServerNext]_vars

\* a network request or a host call that is awaited settles, and the
\* continuation of an awaited promise runs: the event loop does both
SyncProgress ==
    \E c \in CallIds :
        \/ SyncReadQueue(c)
        \/ \E r \in BatchResponses \cup InitialResponses : NetRespond(c, r)
        \/ SyncFetchFail(c)
        \/ SyncNeedInitial(c)
        \/ SyncComplete(c)
        \/ ClearRead(c)
        \/ ClearWrite(c)
        \/ LastRead(c)
        \/ LastWrite(c)
        \/ \E ok \in BOOLEAN : ApplyOne(c, ok)
        \/ GetTree(c)
        \/ InitialOk(c)

\* the orchestrator with the captures its own apply-back calls cause, under
\* the fairness of the event loop
OrchestratorNext == QueueStep \/ SyncStep

FairSpec == Init /\ [][OrchestratorNext]_vars /\ WF_vars(SyncProgress)

\* ------------------------------------------- the agent and the service
\* a queued record in the body of a batch request: JSON.stringify keeps the
\* fields queueChange stored, and only a CREATE has the columns of
\* processBookmark; its metadata holds the browserInstanceId of the
\* installation, which no step of the agent changes once it is stored
Wire(r) == [Chg(r.type, r.etype, r.id, r.type = "CREATE")
               EXCEPT !.inst = storage.browserInstanceId]

WireAll(q) == [i \in DOMAIN q |-> Wire(q[i])]

\* sendChangesToServer: the request {changes, deviceId, timestamp} is
\* handled by handleSync and its answer is what fetch resolves to
PostBatch(c) ==
    /\ calls[c].pc = "fetch"
    /\ import.pc = "idle"
    /\ handleSync(storage.deviceId, WireAll(calls[c].changes))
    /\ reqs' = reqs + 1
    /\ calls' = [calls EXCEPT ![c].pc = "resp",
                              ![c].resp = IF resp'.code = 200
                                          THEN [ok |-> TRUE, action |-> resp'.action,
                                                changes |-> <<>>]
                                          ELSE FailResponse]
    /\ UNCHANGED <<storage, handlers, nextN, syncInProgress, nextCall>>
    /\ UNCHANGED <<boot, idCalls, host, defaults>>

\* sendInitialSync: the request {bookmarks, folders, deviceId, metadata}
\* reaches handleInitialSync; deviceInfo carries no browserInstanceId
PostInitial(c) ==
    /\ calls[c].pc = "fetchInitial"
    /\ import.pc = "idle"
    /\ resp.kind = "batch"
    /\ handleInitialSync(storage.deviceId, processBookmarkTree(host.tree).folders,
                         processBookmarkTree(host.tree).bookmarks, "null")
    /\ reqs' = reqs + 1
    /\ UNCHANGED clientVars

\* sendInitialSync: the fetch resolves with the answer of handleInitialSync
DeliverInitial(c) ==
    /\ calls[c].pc = "fetchInitial"
    /\ import.pc = "idle"
    /\ resp.kind = "initial"
    /\ calls' = [calls EXCEPT ![c].pc = "resp",
                              ![c].resp = IF resp.code = 200
                                          THEN [ok |-> TRUE, action |-> resp.action,
                                                changes |-> <<>>]
                                          ELSE FailResponse]
    /\ UNCHANGED <<storage, handlers, nextN, syncInProgress, nextCall>>
    /\ UNCHANGED <<boot, idCalls, host, defaults, serverVars>>

\* notifications captured before the first sync: a bookmark or a folder
\* created, a title changed
SystemEvents == HostEvents \cup {[kind |-> "CREATE", id |-> "f1", same |-> FALSE]}

\* any host tree; the queue is empty or holds the record of one captured
\* notification; nothing is stored on the server
SystemInit ==
    /\ \E e \in SystemEvents :
          handlers = [n \in NotifIds |->
                        IF n = 1
                        THEN [NoHandler EXCEPT !.pc = "done", !.kind = e.kind,
                                               !.id = e.id]
                        ELSE NoHandler]
    /\ nextN = 2
    /\ \E q \in {<<>>, <<QueuedChange(1)>>} :
          storage = [DefaultData EXCEPT !.changes = q]
    /\ syncInProgress = FALSE
    /\ calls = [c \in CallIds |-> NoCall]
    /\ nextCall = 1
    /\ boot = Running
    /\ idCalls = [k \in IdCallIds |-> NoIdCall]
    /\ \E t \in Trees : host = [tree |-> t, out |-> NoFlat, done |-> FALSE]
    /\ defaults = NoData
    /\ ServerInit

\* sync() called whenever the orchestrator is idle, every request answered
\* by the service, no host mutation.  clearQueuedChanges is not listed: it
\* runs after SYNC_COMPLETE for a batch with changes, an answer the service
\* does not give to a batch of this agent (NeverAcknowledged)
SystemNext ==
    \/ \E c \in CallIds :
          \/ SyncStart(c)
          \/ SyncReadQueue(c)
          \/ PostBatch(c)
          \/ SyncFetchFail(c)
          \/ SyncNeedInitial(c)
          \/ SyncComplete(c)
          \/ LastRead(c)
          \/ LastWrite(c)
          \/ GetTree(c)
          \/ PostInitial(c)
          \/ DeliverInitial(c)
          \/ InitialOk(c)
    \/ ImportFolder
    \/ ImportBookmark
    \/ ImportFinish

\* every call, continuation and request that can run does run
FairSystem == SystemInit /\ [][SystemNext]_vars /\ WF_vars(SystemNext)

\* no invocation of sync() reaches clearQueuedChanges
NeverAcknowledged == \A c \in CallIds : calls[c].pc \notin {"clearRead", "clearWrite"}

\* ============================================================ properties
\* the records of queue q that are not part of batch
Unsent(q, batch) ==
    SelectSeq(q, LAMBDA r : \A j \in DOMAIN batch : batch[j].n # r.n)

\* invocation c takes a step
Steps(c) == calls'[c] # calls[c]

\* C1: when the queue is cleared after a successful incremental sync,
\* exactly the changes of the submitted batch leave the queue; a change
\* enqueued since sync() read the queue is still pending afterwards.
C1_ClearRemovesOnlyBatch ==
    [][\A c \in CallIds :
          (calls[c].pc = "clearWrite" /\ Steps(c))
              => storage'.changes = Unsent(storage.changes, calls[c].changes)]_vars

\* C2: at most one sync attempt is in flight; a sync() call made while
\* another has not completed returns false at once, without reading the queue
\* or issuing a request, and never runs later.
C2_SingleInFlight ==
    /\ [](Cardinality(InFlight) <= 1)
    /\ [][\A c \in CallIds :
             (calls[c].pc = "none" /\ Steps(c) /\ InFlight # {})
                 => /\ calls'[c] = [NoCall EXCEPT !.pc = "done", !.result = "false"]
                    /\ storage' = storage
                    /\ InFlight' = InFlight
                    /\ \A d \in CallIds \ {c} : calls'[d] = calls[d]]_vars
    /\ [][\A c \in CallIds : calls[c].pc = "done" => calls'[c] = calls[c]]_vars

C2_Witness ==
    \E c, d \in CallIds :
        /\ calls[c].pc = "done" /\ calls[c].result = "false"
        /\ calls[d].pc = "fetch"

\* C3: every notification whose queueChange has completed has exactly one
\* ChangeRecord in the persisted queue, whatever the interleaving of the
\* capture handlers (no sync runs in SpecCapture, so nothing is acknowledged).
C3_OneRecordPerNotification ==
    \A n \in NotifIds :
        handlers[n].pc = "done" => CountSerial(storage.changes, n) = 1

\* C4: echo suppression: no ChangeRecord of the queue stems from a
\* notification that an apply-back call of applyServerChanges caused.
C4_NoEchoCaptured ==
    \A i \in DOMAIN storage.changes : ~handlers[storage.changes[i].n].echo

\* C5: a sync attempt that fails in transport acknowledges nothing: no step
\* of the attempt up to and including the failure writes the store (queue and
\* lastSync stay as they are), the attempt ends with an error for the caller
\* and the orchestrator idle, and every attempt submits the whole stored
\* queue, so the next one submits the same changes again.
C5_FailureAcknowledgesNothing ==
    /\ [][\A c \in CallIds :
             (Steps(c) /\ (calls[c].pc \in {"none", "readQueue", "fetch", "fetchInitial"}
                           \/ (calls[c].pc = "resp" /\ ~calls[c].resp.ok)))
                 => storage' = storage]_vars
    /\ [][\A c \in CallIds :
             (Steps(c) /\ calls[c].pc = "resp" /\ ~calls[c].resp.ok)
                 => /\ calls'[c].pc = "done"
                    /\ calls'[c].result = "error"
                    /\ ~syncInProgress']_vars
    /\ [][\A c \in CallIds :
             (Steps(c) /\ calls[c].pc = "readQueue")
                 => calls'[c].pc = "fetch" /\ calls'[c].changes = storage.changes]_vars

C5_Witness ==
    \E c, d \in CallIds :
        /\ c < d
        /\ calls[c].pc = "done" /\ calls[c].result = "error"
        /\ calls[d].pc = "fetch" /\ Len(calls[d].changes) > 0
        /\ calls[d].changes = storage.changes

\* C6: every sync attempt that starts returns the orchestrator to idle:
\* whenever syncInProgress is set an attempt is still running, and under the
\* event loop's fairness syncInProgress is eventually reset, on every path.
C6_ReturnsToIdle ==
    /\ [](syncInProgress <=> InFlight # {})
    /\ (syncInProgress ~> ~syncInProgress)
    /\ \A c \in CallIds : (calls[c].pc \notin {"none", "done"}) ~> (calls[c].pc = "done")

C6_Witness ==
    /\ ~syncInProgress
    /\ \E c, d \in CallIds :
          /\ calls[c].pc = "done" /\ calls[c].result = "error"
          /\ calls[d].pc = "done" /\ calls[d].result = "true"

\* rows of a table stored for one (owner, local id)
RowsOf(tbl, u, b) ==
    Cardinality({i \in DOMAIN tbl : tbl[i].userId = u /\ tbl[i].browserId = b})

\* rows of either entity table stored for an owner
OwnerRows(u) ==
    Cardinality({i \in DOMAIN folders : folders[i].userId = u})
    + Cardinality({i \in DOMAIN bookmarks : bookmarks[i].userId = u})

UserIds == Devices \cup {"default"}

BrowserIds == {"f1", "f2", "fx", "f3", "b1", "b2", "bx", "b3"}

\* an INITIAL_IMPORT for the owner is recorded as SUCCESS
Imported(u) ==
    \E i \in DOMAIN history : history[i].userId = u
                              /\ history[i].type = "INITIAL_IMPORT"
                              /\ history[i].status = "SUCCESS"

\* C7: a batch that was answered SYNC_COMPLETE and is submitted again
\* unchanged as the next request leaves the number of rows stored for
\* every (owner, local id) as it was: no duplicate rows appear.
C7_ResubmitNoDuplicates ==
    [][(/\ resp.kind = "batch" /\ resp.action = "SYNC_COMPLETE"
        /\ resp'.kind = "batch" /\ resp'.action = "SYNC_COMPLETE"
        /\ reqs' = reqs + 1
        /\ resp'.deviceId = resp.deviceId
        /\ resp'.changes = resp.changes)
       => \A u \in UserIds, b \in BrowserIds :
              /\ RowsOf(folders', u, b) = RowsOf(folders, u, b)
              /\ RowsOf(bookmarks', u, b) = RowsOf(bookmarks, u, b)]_vars

\* C8: a status response says that an initial import is needed exactly when
\* the entity tables hold no row for the owner, and a batch is answered
\* NEED_INITIAL_IMPORT under the same test.
C8_NeedsImportIffNoRows ==
    /\ resp.kind = "status" =>
           (resp.needsInitialSync <=> OwnerRows(resp.deviceId) = 0)
    /\ resp.kind = "batch" =>
           (resp.action = "NEED_INITIAL_IMPORT" <=> OwnerRows(resp.deviceId) = 0)

\* C9: while nothing is stored for an owner and no import of it has
\* succeeded, a status response and a batch response ask for the initial
\* import; once an initial import of the owner
\* has succeeded no later status or batch response asks for it, whatever
\* tree was imported.
C9_ImportNegotiation ==
    /\ (resp.kind = "status" /\ OwnerRows(resp.deviceId) = 0
                              /\ ~Imported(resp.deviceId))
           => resp.needsInitialSync
    /\ (resp.kind = "batch" /\ OwnerRows(resp.deviceId) = 0
                             /\ ~Imported(resp.deviceId))
           => resp.action = "NEED_INITIAL_IMPORT"
    /\ (resp.kind = "status" /\ Imported(resp.deviceId))
           => ~resp.needsInitialSync
    /\ (resp.kind = "batch" /\ Imported(resp.deviceId))
           => resp.action # "NEED_INITIAL_IMPORT"

\* C10: while an initial import is processed, a bookmark of the request is
\* stored only after every folder of the request has been stored, in
\* whatever order the two lists name parents and children.
C10_FoldersBeforeBookmarks ==
    import.pc = "run" =>
        /\ Len(folders) = import.f0 + import.folderResults
        /\ Len(bookmarks) = import.b0 + import.bookmarkResults
        /\ Len(bookmarks) > import.b0
               => Len(folders) = import.f0 + Len(import.folders)

\* a bookmark of the request is stored, the request listing the child
\* folder before its parent
C10_Witness ==
    /\ import.pc = "run"
    /\ import.folders = <<F2, F1>>
    /\ import.bookmarkResults > 0
    /\ \E i \in DOMAIN bookmarks : bookmarks[i].browserId = "b1" /\ i > import.b0
    /\ \E i \in DOMAIN folders : folders[i].browserId = "f1" /\ i > import.f0

\* a batch request is answered SYNC_COMPLETE in this step
BatchStep ==
    reqs' = reqs + 1 /\ resp'.kind = "batch" /\ resp'.action = "SYNC_COMPLETE"

\* a batch request gets past the test for the first sync: its changes are
\* processed in this step
ProcessedStep ==
    reqs' = reqs + 1 /\ resp'.kind = "batch" /\ resp'.action # "NEED_INITIAL_IMPORT"

\* CREATE changes of a batch that carry every column, per table and key
Creates(changes, etype, u, b) ==
    Cardinality({i \in DOMAIN changes :
        /\ changes[i].type = "CREATE" /\ changes[i].full
        /\ (changes[i].etype = "bookmark") = (etype = "bookmark")
        /\ changes[i].userId = u /\ changes[i].browserId = b})

\* the statement of change i of the batch violates a NOT NULL constraint:
\* an INSERT without the columns, or an UPDATE without them that meets a
\* row stored before the batch or created earlier in it
Throws(changes, i) ==
    LET ch == changes[i]
        tbl == IF ch.etype = "bookmark" THEN bookmarks ELSE folders
        et == IF ch.etype = "bookmark" THEN "bookmark" ELSE "folder"
    IN  /\ ~ch.full
        /\ \/ ch.type = "CREATE"
           \/ /\ ch.type \in {"UPDATE", "DELETE"}
              /\ \/ RowsOf(tbl, ch.userId, ch.browserId) > 0
                 \/ Creates(SubSeq(changes, 1, i - 1), et,
                            ch.userId, ch.browserId) > 0

ErrorCount(results) ==
    Cardinality({i \in DOMAIN results : results[i] = "error"})

\* C11: in a batch processed by the server, a change whose statement throws
\* yields an error entry and stops nothing: every CREATE of the batch that
\* carries its columns is stored, before or after the failing change, the
\* error entries are as many as the failing changes, and the response is
\* success with action SYNC_COMPLETE.
C11_PartialBatchTolerance ==
    [][ProcessedStep =>
         LET changes == resp'.changes
         IN  /\ resp'.code = 200
             /\ resp'.action = "SYNC_COMPLETE"
             /\ \A u \in UserIds, b \in BrowserIds :
                  /\ RowsOf(bookmarks', u, b) =
                        RowsOf(bookmarks, u, b) + Creates(changes, "bookmark", u, b)
                  /\ RowsOf(folders', u, b) =
                        RowsOf(folders, u, b) + Creates(changes, "folder", u, b)
             /\ ErrorCount(resp'.results) =
                    Cardinality({i \in DOMAIN changes : Throws(changes, i)})]_vars

\* the second change of a batch of three failed, the third is stored
C11_Witness ==
    /\ resp.kind = "batch" /\ resp.action = "SYNC_COMPLETE"
    /\ resp.results = <<"ok", "error", "ok">>
    /\ RowsOf(folders, "default", "f3") > 0
    /\ RowsOf(bookmarks, "default", "b3") > 0

\* C12: a batch that is processed appends exactly one sync_history row, of
\* type SYNC, with changesCount the number of changes submitted and status
\* SUCCESS, also when changes of the batch ended in error entries; a batch
\* answered NEED_INITIAL_IMPORT appends none.
C12_OneHistoryEntryPerBatch ==
    [][/\ ProcessedStep =>
            history' = Append(history,
                [userId |-> resp'.deviceId, type |-> "SYNC",
                 changesCount |-> Len(resp'.changes), status |-> "SUCCESS"])
       /\ (reqs' = reqs + 1 /\ resp'.action = "NEED_INITIAL_IMPORT")
            => history' = history]_vars

\* a batch of three changes with an error entry is recorded with count 3
C12_Witness ==
    /\ resp.kind = "batch" /\ resp.action = "SYNC_COMPLETE"
    /\ ErrorCount(resp.results) > 0
    /\ Len(history) > 0
    /\ history[Len(history)] = [userId |-> resp.deviceId, type |-> "SYNC",
                                changesCount |-> 3, status |-> "SUCCESS"]

\* C13: a SYNC_COMPLETE response carries one entry of results[] for each
\* change of the batch, whatever the kinds of the changes (CREATE, UPDATE,
\* DELETE, MOVE).
C13_OneResultPerChange ==
    (resp.kind = "batch" /\ resp.action = "SYNC_COMPLETE")
        => Len(resp.results) = Len(resp.changes)

\* the table a change is dispatched to by data.type
Target(ch, fs, bs) == IF ch.etype = "bookmark" THEN bs ELSE fs

\* every row of tbl is still in tbl2, at its place and under its key
Kept(tbl, tbl2) ==
    /\ Len(tbl2) >= Len(tbl)
    /\ \A i \in DOMAIN tbl : /\ tbl2[i].userId = tbl[i].userId
                             /\ tbl2[i].browserId = tbl[i].browserId

\* C14: a batch that consists of one DELETE change leaves every row the
\* change matches with status 'deleted' and its version one higher; and no
\* step of the ingest service removes a row of folders or bookmarks.
C14_DeleteIsTombstone ==
    [][/\ (BatchStep /\ Len(resp'.changes) = 1
                     /\ resp'.changes[1].type = "DELETE") =>
            LET ch == resp'.changes[1]
                old == Target(ch, folders, bookmarks)
                new == Target(ch, folders', bookmarks')
            IN  \A i \in DOMAIN old :
                    (old[i].userId = ch.userId /\ old[i].browserId = ch.browserId)
                        => /\ new[i].status = "deleted"
                           /\ new[i].syncVersion = old[i].syncVersion + 1
       /\ Kept(folders, folders')
       /\ Kept(bookmarks, bookmarks')]_vars

\* the version of the row stored last for a key
LastVersion(tbl, u, b) ==
    LET hit == {i \in DOMAIN tbl : tbl[i].userId = u /\ tbl[i].browserId = b}
    IN  tbl[CHOOSE i \in hit : \A j \in hit : j <= i].syncVersion

\* C15: for every (owner, local id) that is stored, the version stored for
\* it does not decrease in any step; a CREATE for the key of a tombstoned
\* entity does not bring the version back to 1.
C15_VersionNeverDecreases ==
    [][\A u \in UserIds, b \in BrowserIds :
          /\ RowsOf(bookmarks, u, b) > 0 =>
                LastVersion(bookmarks', u, b) >= LastVersion(bookmarks, u, b)
          /\ RowsOf(folders, u, b) > 0 =>
                LastVersion(folders', u, b) >= LastVersion(folders, u, b)]_vars

\* the UPDATE / DELETE changes of a batch that the server accepts for one
\* stored entity: they name its table and key and carry all columns
Bumps(changes, etype, u, b) ==
    Cardinality({i \in DOMAIN changes :
                    /\ changes[i].type \in {"UPDATE", "DELETE"}
                    /\ changes[i].full
                    /\ (changes[i].etype = "bookmark") = (etype = "bookmark")
                    /\ changes[i].userId = u
                    /\ changes[i].browserId = b})

\* C16: requests are handled one after the other, in any order and from any
\* device; when a batch carries k accepted UPDATE / DELETE changes for a
\* stored entity, the version of that entity ends exactly k higher.
C16_NoLostVersionBump ==
    [][BatchStep =>
          /\ \A i \in DOMAIN bookmarks :
                bookmarks'[i].syncVersion = bookmarks[i].syncVersion
                    + Bumps(resp'.changes, "bookmark",
                            bookmarks[i].userId, bookmarks[i].browserId)
          /\ \A i \in DOMAIN folders :
                folders'[i].syncVersion = folders[i].syncVersion
                    + Bumps(resp'.changes, "folder",
                            folders[i].userId, folders[i].browserId)]_vars

\* two batches of two accepted changes each have reached one imported row
C16_Witness ==
    /\ resp.kind = "batch" /\ resp.action = "SYNC_COMPLETE"
    /\ Bumps(resp.changes, "bookmark", "D1", "b1") = 2
    /\ \E i \in DOMAIN bookmarks :
          /\ bookmarks[i].userId = "D1" /\ bookmarks[i].browserId = "b1"
          /\ bookmarks[i].syncVersion = 5

\* invocation c of sync() completes a successful initial import
ImportDone(c) ==
    /\ calls[c].pc = "lastWrite"
    /\ calls[c].resp.action = "INITIAL_IMPORT_COMPLETE"
    /\ Steps(c)

\* C17: when an initial import has succeeded, lastSync is advanced and the
\* changes that were queued when the attempt started are no longer in the
\* queue, so no later sync submits them.
C17_ImportClearsQueue ==
    [][\A c \in CallIds :
          ImportDone(c) =>
              /\ storage'.lastSync = Now(c)
              /\ Unsent(storage'.changes, calls[c].changes) = storage'.changes]_vars

\* invocation c is importing: between the NEED_INITIAL_IMPORT answer and the
\* end of sendInitialSync
Importing(c) ==
    \/ calls[c].pc \in {"getTree", "fetchInitial"}
    \/ calls[c].resp.action = "INITIAL_IMPORT_COMPLETE"

\* C18: an attempt starts the initial import exactly when the answer to its
\* batch is NEED_INITIAL_IMPORT; an attempt whose batch was accepted never
\* imports, and an importing attempt never clears the queue, applies server
\* changes or posts a batch.
C18_ImportIffServerAsks ==
    [][\A c \in CallIds :
          Steps(c) =>
              /\ (calls'[c].pc = "getTree") <=>
                     /\ calls[c].pc = "resp"
                     /\ calls[c].resp.ok
                     /\ calls[c].resp.action = "NEED_INITIAL_IMPORT"
              /\ calls'[c].pc = "fetchInitial" => calls[c].pc = "getTree"
              /\ calls[c].resp.action = "SYNC_COMPLETE" =>
                     calls'[c].pc \notin {"getTree", "fetchInitial"}
              /\ Importing(c) =>
                     calls'[c].pc \notin {"readQueue", "fetch", "clearRead",
                                          "clearWrite", "apply"}]_vars

\* an attempt that had changes to send is completing an initial import
\* after another attempt has ended with an accepted batch
C18_Witness ==
    \E c, d \in CallIds :
        /\ calls[c].pc = "lastWrite"
        /\ calls[c].resp.action = "INITIAL_IMPORT_COMPLETE"
        /\ Len(calls[c].changes) > 0
        /\ calls[d].pc = "done" /\ calls[d].result = "true"

\* every record of queue q is still in queue q2
StillQueued(q, q2) ==
    \A i \in DOMAIN q : \E j \in DOMAIN q2 : q2[j].n = q[i].n

\* C19: a step of the background service's initialization or of its
\* install / startup handlers removes no record from the local queue.
C19_LifecycleKeepsQueue ==
    [][boot' # boot => StillQueued(storage.changes, storage'.changes)]_vars

\* C20: once a deviceId and a browserInstanceId are stored, no step
\* replaces them.
C20_IdentityGeneratedOnce ==
    [][/\ storage.deviceId # "" => storage'.deviceId = storage.deviceId
       /\ storage.browserInstanceId # "" =>
              storage'.browserInstanceId = storage.browserInstanceId]_vars

\* invocation k of getDeviceId() returns
IdReturns(k) == idCalls[k].pc = "got" /\ idCalls'[k].pc = "done"

\* C21: a call of getDeviceId that returns while an identifier is stored
\* returns that identifier and leaves it stored; only a call that finds
\* none stored creates one.
C21_StableIdentity ==
    [][\A k \in IdCallIds :
          (IdReturns(k) /\ storage.deviceId # "") =>
              /\ idCalls'[k].result = storage.deviceId
              /\ storage'.deviceId = storage.deviceId]_vars

\* C22: the records of the queue are in the order in which the host raised
\* their notifications.
C22_CaptureOrder ==
    \A i, j \in DOMAIN storage.changes :
        i < j => storage.changes[i].n < storage.changes[j].n

\* the move handler of notification n continues after chrome.bookmarks.get
Looked(n) == handlers[n].pc = "lookup" /\ handlers'[n].pc # "lookup"

C24_ReorderCapturedAsUpdate ==
    \A n \in NotifIds :
        (handlers[n].kind = "MOVE" /\ handlers[n].same
             /\ handlers[n].pc \in {"skipped", "done"})
            => \E i \in DOMAIN storage.changes :
                  /\ storage.changes[i].n = n
                  /\ storage.changes[i].type = "UPDATE"

\* bookmark rows of owner u among the rows tbl
BookmarksOf(tbl, u) == Cardinality({i \in DOMAIN tbl : tbl[i].userId = u})

\* handleInitialSync answers 500 in this step
ImportFails == import.pc = "run" /\ resp'.kind = "initial" /\ resp'.code = 500

\* C25: when an initial import fails for an owner that had no bookmark row
\* when it began, the owner has none afterwards, so that the next batch or
\* status request is answered with the demand for an initial import.
C25_FailedImportStillNeeded ==
    [][(ImportFails
        /\ BookmarksOf(SubSeq(bookmarks, 1, import.b0), import.deviceId) = 0)
       => BookmarksOf(bookmarks', import.deviceId) = 0]_vars

\* handleInitialSync answers INITIAL_IMPORT_COMPLETE in this step
ImportSucceeds ==
    import.pc = "run" /\ resp'.kind = "initial"
                      /\ resp'.action = "INITIAL_IMPORT_COMPLETE"

\* the rows of tbl after the first n0 are the items, stored for owner u
StoredFor(tbl, n0, items, u) ==
    /\ Len(tbl) = n0 + Len(items)
    /\ \A k \in DOMAIN items :
          /\ tbl[n0 + k].userId = u
          /\ tbl[n0 + k].browserId = items[k].browserId
          /\ tbl[n0 + k].parentId = items[k].parentId

RECURSIVE NodesOf(_)

\* the nodes of the tree below and including node
NodesOf(node) ==
    {node} \cup UNION {NodesOf(node.children[k]) : k \in DOMAIN node.children}

\* the entries of list that carry the id of node n
EntriesOf(list, n) == {i \in DOMAIN list : list[i].browserId = n.id}

\* C28: once the tree is flattened, every node but the root has exactly one
\* entry, in folders when it has no url and in bookmarks otherwise, with its
\* id, parentId and index; there is no other entry, whatever the queue holds.
C28_FlattenWholeTree ==
    host.done =>
        LET nodes == {n \in NodesOf(host.tree) : n.id # "0"}
        IN  /\ \A n \in nodes :
                  LET own   == IF n.url THEN host.out.bookmarks ELSE host.out.folders
                      other == IF n.url THEN host.out.folders ELSE host.out.bookmarks
                  IN  /\ Cardinality(EntriesOf(own, n)) = 1
                      /\ EntriesOf(other, n) = {}
                      /\ \A i \in EntriesOf(own, n) :
                            /\ own[i].parentId = n.parentId
                            /\ own[i].position = n.index
            /\ Len(host.out.bookmarks) + Len(host.out.folders) = Cardinality(nodes)

\* the tree of two folders and two bookmarks is flattened while a change is
\* queued; the lists are those of the import request
C28_Witness ==
    /\ host.done
    /\ host.tree = HostTree
    /\ host.out.folders = <<F1, F2>>
    /\ host.out.bookmarks = <<B1, B2>>
    /\ Len(storage.changes) > 0

\* the request being imported is the flattening of the host tree
ImportsHostTree ==
    /\ import.pc = "run"
    /\ import.folders = processBookmarkTree(HostTree).folders
    /\ import.bookmarks = processBookmarkTree(HostTree).bookmarks

\* local ids of the folder rows stored for owner u
FolderIdsOf(tbl, u) == {tbl[i].browserId : i \in {j \in DOMAIN tbl : tbl[j].userId = u}}

\* the rows appended to tbl in this step refer to a stored folder of owner u
ParentsResolve(tbl, tbl2, u) ==
    \A i \in DOMAIN tbl2 :
        i > Len(tbl) => tbl2[i].parentId \in FolderIdsOf(folders, u)

\* C27: while the flattened host tree is imported, every row is inserted
\* with a parent reference to a folder row already stored for the owner.
C27_ParentStoredFirst ==
    [][ImportsHostTree =>
          /\ ParentsResolve(folders, folders', import.deviceId)
          /\ ParentsResolve(bookmarks, bookmarks', import.deviceId)]_vars

\* C29: an attempt posts its batch once: the request is issued from the
\* read of the queue only and carries the whole queue as read, the batch is
\* not altered while the request is pending, and a failed response ends the
\* attempt with an error, without another request.
C29_SingleRequestNoRetry ==
    [][\A c \in CallIds :
          Steps(c) =>
              /\ calls'[c].pc = "readQueue" => calls[c].pc = "none"
              /\ calls'[c].pc = "fetch" =>
                     /\ calls[c].pc = "readQueue"
                     /\ calls'[c].changes = storage.changes
              /\ calls[c].pc = "fetch" => calls'[c].changes = calls[c].changes
              /\ (calls[c].pc = "resp" /\ ~calls[c].resp.ok) =>
                     /\ calls'[c].pc = "done"
                     /\ calls'[c].result = "error"]_vars

\* an attempt has failed; the caller's next attempt posts the two changes
\* that are still queued
C29_Witness ==
    \E c, d \in CallIds :
        /\ calls[c].pc = "done" /\ calls[c].result = "error"
        /\ calls[d].pc = "fetch"
        /\ Len(calls[d].changes) = 2
        /\ calls[d].changes = storage.changes

\* C30: each step of applyServerChanges handles the change at the current
\* position and moves to the next one, whether the host call succeeded or
\* not; the loop ends, with success, only after the last change.  The host
\* mutation it causes is that of the change at the current position.
C30_ApplyEachInOrder ==
    [][\A c \in CallIds :
          (calls[c].pc = "apply" /\ Steps(c)) =>
              LET i  == calls[c].idx
                  ch == calls[c].resp.changes[i]
              IN  /\ IF i < Len(calls[c].resp.changes)
                     THEN /\ calls'[c].pc = "apply"
                          /\ calls'[c].idx = i + 1
                          /\ calls'[c].resp = calls[c].resp
                     ELSE /\ calls'[c].pc = "done"
                          /\ calls'[c].result = "true"
                  /\ nextN' # nextN =>
                         /\ nextN' = nextN + 1
                         /\ handlers'[nextN].kind = NotifKind(ch.type)
                         /\ handlers'[nextN].id = ch.id
                         /\ handlers'[nextN].echo]_vars

\* the first host call failed, the second succeeded, the third is next
C30_Witness ==
    /\ calls[1].pc = "apply"
    /\ calls[1].idx = 3
    /\ calls[1].resp.changes[1].type = "UPDATE"
    /\ calls[1].resp.changes[2].type = "DELETE"
    /\ nextN = 2
    /\ handlers[1].kind = "DELETE" /\ handlers[1].echo

\* the write of the handler of notification n is rejected in this step
WriteRejected(n) == handlers[n].pc = "write" /\ handlers'[n].pc = "failed"

\* C31: when the write of queueChange is rejected the handler ends there:
\* the stored object and the defaults object held in memory are as before
\* and nothing else of the agent changes; and at no time afterwards does the
\* stored queue or the defaults object hold a record of that notification,
\* whatever later handlers write.
C31_FailedWriteDropsChange ==
    /\ [][\A n \in NotifIds :
             WriteRejected(n) =>
                 /\ storage' = storage
                 /\ defaults' = defaults
                 /\ \A m \in NotifIds \ {n} : handlers'[m] = handlers[m]
                 /\ UNCHANGED <<syncInProgress, calls, boot>>]_vars
    /\ [](\A n \in NotifIds :
             handlers[n].pc = "failed" =>
                 /\ CountSerial(storage.changes, n) = 0
                 /\ CountSerial(defaults.changes, n) = 0)

\* the first change was dropped with a rejected write; the handler of the
\* second has written the queue since
C31_Witness ==
    /\ handlers[1].pc = "failed"
    /\ handlers[2].pc = "done"
    /\ CountSerial(storage.changes, 2) = 1
    /\ CountSerial(storage.changes, 1) = 0

\* rows of table browsers registered for owner u
BrowsersOf(tbl, u) == {i \in DOMAIN tbl : tbl[i].userId = u}

\* C32: when a batch or an initial import has been received, table browsers
\* holds a row for the submitting device; and no two rows of the table carry
\* the same browserInstanceId.
C32_EveryRequestUpsertsInstance ==
    /\ [][(reqs' = reqs + 1 /\ (resp'.kind = "batch" \/ import'.pc = "run"))
              => BrowsersOf(browsers',
                            IF resp'.kind = "batch" THEN resp'.deviceId
                            ELSE import'.deviceId) # {}]_vars
    /\ [](\A i, j \in DOMAIN browsers :
             browsers[i].browserInstanceId = browsers[j].browserInstanceId
                 => i = j)

\* C33: when a batch of device d is processed, every DELETE change of it,
\* as the capture handlers build it, leaves the rows stored for d under the
\* local id of the change with status 'deleted'.
C33_ClientChangeReachesImportedRow ==
    [][BatchStep =>
          \A k \in DOMAIN resp'.changes :
              LET ch  == resp'.changes[k]
                  old == Target(ch, folders, bookmarks)
                  new == Target(ch, folders', bookmarks')
              IN  (ch.type = "DELETE" /\ ch.userId = "default") =>
                      \A i \in DOMAIN old :
                          (old[i].userId = resp'.deviceId
                               /\ old[i].browserId = ch.browserId)
                              => new[i].status = "deleted"]_vars

\* the kind of the host node with the given id
NodeKind(id) == IF HasUrl(id) THEN "bookmark" ELSE "folder"

\* C34: every record of the queue carries the kind of the host node it
\* describes: 'folder' for a node without url, 'bookmark' otherwise.
C34_RecordKindIsNodeKind ==
    \A i \in DOMAIN storage.changes :
        storage.changes[i].etype = NodeKind(storage.changes[i].id)

\* invocation c has cleared the queue for its accepted batch and has not
\* returned yet
Cleared(c) ==
    /\ calls[c].pc \in {"lastRead", "lastWrite", "apply"}
    /\ calls[c].resp.action = "SYNC_COMPLETE"

\* C35: from the moment an attempt has cleared the queue for its accepted
\* batch, no change of that batch is in the stored queue, whatever capture
\* handlers read and write in between.
C35_AcknowledgedStaysCleared ==
    \A c \in CallIds :
        Cleared(c) =>
            \A i \in DOMAIN calls[c].changes :
                CountSerial(storage.changes, calls[c].changes[i].n) = 0

ReturnsTrue(c) ==
    calls[c].pc \notin {"none", "done"}
        /\ calls'[c].pc = "done" /\ calls'[c].result = "true"

\* C37: when sync() returns true, the stored lastSync is the time of that
\* attempt.
C37_SuccessAdvancesLastSync ==
    [][\A c \in CallIds : ReturnsTrue(c) => storage'.lastSync = Now(c)]_vars

BatchOfNewOwner ==
    /\ reqs' = reqs + 1
    /\ resp'.kind = "batch"
    /\ getBookmarkCount(resp'.deviceId) = 0

\* C39: a batch of an owner for whom the service asks the initial import is
\* answered NEED_INITIAL_IMPORT with status 200 and without results, and the
\* step changes no row of folders, bookmarks, sync_history or browsers.
C39_NeedImportChangesNothing ==
    [][BatchOfNewOwner =>
          /\ resp'.action = "NEED_INITIAL_IMPORT"
          /\ resp'.code = 200
          /\ resp'.results = <<>>
          /\ UNCHANGED <<folders, bookmarks, history, browsers>>]_vars

\* a batch with changes was answered NEED_INITIAL_IMPORT for an owner who
\* has folder rows and a recorded import, but no bookmark row
C39_Witness ==
    /\ resp.kind = "batch" /\ resp.action = "NEED_INITIAL_IMPORT"
    /\ Len(resp.changes) > 0
    /\ Imported(resp.deviceId)
    /\ \E i \in DOMAIN folders : folders[i].userId = resp.deviceId

\* C40: every batch request that sendChangesToServer produces (body
\* {changes, deviceId, timestamp}, each change carrying its own metadata) is
\* processed by handleSync without a handler-level failure: the answer is
\* success with action SYNC_COMPLETE or NEED_INITIAL_IMPORT.
C40_ClientBatchNeverFails ==
    [][\A c \in CallIds :
          (calls[c].pc = "fetch" /\ Steps(c))
             => /\ resp'.kind = "batch"
                /\ resp'.code = 200
                /\ resp'.action \in {"SYNC_COMPLETE", "NEED_INITIAL_IMPORT"}
                /\ calls'[c].resp.ok]_vars

====
